---- MODULE Spec2Model ----
(***************************************************************************)
(* Model of switch_model/policies/rps_simple.py: a Renewable Portfolio     *)
(* Standard policy module of the Switch capacity-expansion model.          *)
(*                                                                         *)
(* Lifecycle modelled: define_components -> load_inputs -> construct       *)
(* (the framework builds the declared components from the loaded data) ->  *)
(* solve (the solver picks any assignment of the decision variables that   *)
(* satisfies RPS_Enforce_Target) -> post_solve.                            *)
(*                                                                         *)
(* Numbers are exact rationals <<numerator, denominator>>, so that the     *)
(* divisions of the source (by the heat rate, by 1000, by total generation *)
(* and total demand) are computed and not assumed.                         *)
(***************************************************************************)
EXTENDS Integers, FiniteSets, Sequences, TLC

\* ------------------------------------------------------------------ bounds
\* Largest value the solver may give DispatchGen[g, t].
MaxDispatch == 1
\* Largest value the solver may give GenFuelUseRate[g, t, f].
MaxFuelUse == 1

\* ------------------------------------------------------ rational arithmetic
Abs(n) == IF n < 0 THEN -n ELSE n

RECURSIVE GCD(_, _)
GCD(a, b) == IF b = 0 THEN a ELSE GCD(b, a % b)

\* n/d in lowest terms with a positive denominator (d # 0).
Rat(n, d) ==
    LET g == GCD(Abs(n), Abs(d))
        s == IF d < 0 THEN -1 ELSE 1
    IN  << (s * n) \div g, (s * d) \div g >>

FromInt(n) == << n, 1 >>

Zero == FromInt(0)

RAdd(a, b) == Rat(a[1] * b[2] + b[1] * a[2], a[2] * b[2])

RMul(a, b) == Rat(a[1] * b[1], a[2] * b[2])

\* a / b; the caller has excluded b = 0 (Python raises ZeroDivisionError).
RDiv(a, b) == Rat(a[1] * b[2], a[2] * b[1])

RLeq(a, b) == a[1] * b[2] <= b[1] * a[2]

RGeq(a, b) == RLeq(b, a)

\* Python's sum(...) over a generator: f is the function from the generator's
\* index tuples to the summed terms.
RECURSIVE RSumOver(_, _)
RSumOver(S, f) ==
    IF S = {} THEN Zero
    ELSE LET x == CHOOSE x \in S : TRUE
         IN  RAdd(f[x], RSumOver(S \ {x}, f))

RSum(f) == RSumOver(DOMAIN f, f)

\* --------------------------------------------- the host model's components
\* Sets and parameters the module reads from the model it extends.
FUELS == {"coal", "biomass"}

NON_FUEL_ENERGY_SOURCES == {"wind"}

PERIODS == {1, 2}

LOAD_ZONES == {"north", "south"}

TIMEPOINTS == {1, 2, 3}

tp_period(t) == IF t = 3 THEN 2 ELSE 1

tp_weight(t) == CASE t = 1 -> 2 [] t = 2 -> 1 [] OTHER -> 3

GENERATION_PROJECTS == {"wind_gen", "cofire_gen"}

FUEL_BASED_GENS == {"cofire_gen"}

NON_FUEL_BASED_GENS == GENERATION_PROJECTS \ FUEL_BASED_GENS

FUELS_FOR_GEN(g) == IF g = "cofire_gen" THEN {"coal", "biomass"} ELSE {}

gen_full_load_heat_rate(g) == 2

\* wind_gen runs in both periods, cofire_gen is built for period 2.
TPS_FOR_GEN_IN_PERIOD(g, p) ==
    {t \in TIMEPOINTS : tp_period(t) = p /\ (g = "cofire_gen" => p = 2)}

GEN_TPS ==
    {gt \in GENERATION_PROJECTS \X TIMEPOINTS :
        gt[2] \in TPS_FOR_GEN_IN_PERIOD(gt[1], tp_period(gt[2]))}

GEN_TP_FUELS ==
    {gtf \in FUEL_BASED_GENS \X TIMEPOINTS \X FUELS :
        /\ << gtf[1], gtf[2] >> \in GEN_TPS
        /\ gtf[3] \in FUELS_FOR_GEN(gtf[1])}

\* The zonal demand tables the runs are made with: one with demand in every
\* period, one with no demand at all in period 2.
DemandProfiles ==
    { [zp \in LOAD_ZONES \X PERIODS |->
          CASE zp = << "north", 1 >> -> 2
            [] zp = << "south", 1 >> -> 2
            [] zp = << "north", 2 >> -> 2
            [] OTHER -> 1],
      [zp \in LOAD_ZONES \X PERIODS |->
          CASE zp = << "north", 1 >> -> 2
            [] zp = << "south", 1 >> -> 2
            [] OTHER -> 0] }

\* ------------------------------------------------------------ input files
\* The file that is not there.
NoFile == [exists |-> FALSE, columns |-> << >>, rows |-> {}]

PartialFns(S, T) == UNION {[D -> T] : D \in SUBSET S}

Range(s) == {s[i] : i \in DOMAIN s}

\* A .tab file: its header and its rows (one tuple per row, keyed by the
\* first column).
Tab(columns, f) ==
    [exists |-> TRUE, columns |-> columns, rows |-> {<< k, f[k] >> : k \in DOMAIN f}]

EligibleValues == {0, 1, 2}

FuelsTabs ==
    {NoFile}
    \cup {[exists |-> TRUE, columns |-> << "fuel" >>, rows |-> {<< f >> : f \in FUELS}]}
    \cup {Tab(<< "fuel", "f_rps_eligible" >>, r) : r \in PartialFns(FUELS, EligibleValues)}

FilePeriods == {1, 2, 3}

TargetValues == {Rat(-1, 2), Rat(1, 2), FromInt(1), Rat(3, 2)}

RpsTargetsTabs ==
    {NoFile}
    \cup {Tab(<< "PERIOD", "rps_target" >>, r) : r \in PartialFns(FilePeriods, TargetValues)}

\* ------------------------------------------------------------------ state
VARIABLES
    phase,              \* position in the lifecycle
    error,              \* the exception that ended the run, or NoError
    components,         \* names define_components attached to the model
    fuels_tab,          \* inputs_dir/fuels.tab
    rps_targets_tab,    \* inputs_dir/rps_targets.tab
    zone_total_demand_in_period_mwh,
    switch_data,        \* the data portal load_inputs fills
    f_rps_eligible,     \* the parameter's stored values (no entry: default)
    RPS_ENERGY_SOURCES,
    RPS_PERIODS,
    rps_target,
    RPS_Enforce_Target, \* the periods the constraint was built for
    DispatchGen,
    GenFuelUseRate,
    rps_energy_txt      \* outdir/rps_energy.txt

\* No exception was raised.
NoError == [type |-> "None", what |-> ""]

\* A keyword argument that is not passed.
None == "None"

\* rps_energy.txt before post_solve ran.
NoOutput == [exists |-> FALSE, headings |-> << >>, rows |-> << >>]

vars ==
    << phase, error, components, fuels_tab, rps_targets_tab,
       zone_total_demand_in_period_mwh, switch_data, f_rps_eligible,
       RPS_ENERGY_SOURCES, RPS_PERIODS, rps_target, RPS_Enforce_Target,
       DispatchGen, GenFuelUseRate, rps_energy_txt >>

inputs == << fuels_tab, rps_targets_tab, zone_total_demand_in_period_mwh >>

built == << f_rps_eligible, RPS_ENERGY_SOURCES, RPS_PERIODS, rps_target, RPS_Enforce_Target >>

solution == << DispatchGen, GenFuelUseRate >>

Init ==
    /\ phase = "init"
    /\ error = NoError
    /\ components = {}
    /\ fuels_tab \in FuelsTabs
    /\ rps_targets_tab \in RpsTargetsTabs
    /\ zone_total_demand_in_period_mwh \in DemandProfiles
    /\ switch_data = << >>
    /\ f_rps_eligible = << >>
    /\ RPS_ENERGY_SOURCES = {}
    /\ RPS_PERIODS = {}
    /\ rps_target = << >>
    /\ RPS_Enforce_Target = {}
    /\ DispatchGen = << >>
    /\ GenFuelUseRate = << >>
    /\ rps_energy_txt = NoOutput

\* ------------------------------------------------------ define_components
define_components ==
    /\ phase = "init"
    /\ phase' = "defined"
    /\ components' = {"f_rps_eligible", "RPS_ENERGY_SOURCES", "RPS_PERIODS",
                      "rps_target", "RPSFuelEnergy", "RPSNonFuelEnergy",
                      "RPS_Enforce_Target"}
    /\ UNCHANGED << error, inputs, switch_data, built, solution, rps_energy_txt >>

\* ------------------------------------------------------------ load_inputs
\* switch_data.load_aug(filename=fuels.tab, select=('fuel','f_rps_eligible'),
\*     optional_params=['f_rps_eligible'], param=(mod.f_rps_eligible,))
fuels_load_args ==
    [filename |-> "fuels.tab",
     select |-> << "fuel", "f_rps_eligible" >>,
     optional |-> FALSE,
     optional_params |-> {"f_rps_eligible"},
     index |-> None,
     param |-> "f_rps_eligible"]

\* Variant: the targets file loaded with optional=True.
rps_targets_load_args_optional ==
    [filename |-> "rps_targets.tab",
     select |-> << >>,
     optional |-> TRUE,
     optional_params |-> {},
     index |-> "RPS_PERIODS",
     param |-> "rps_target"]

\* switch_data.load_aug(filename=rps_targets.tab, autoselect=True,
\*     index=mod.RPS_PERIODS, param=(mod.rps_target,))
rps_targets_load_args ==
    [filename |-> "rps_targets.tab",
     select |-> << >>,
     optional |-> FALSE,
     optional_params |-> {},
     index |-> "RPS_PERIODS",
     param |-> "rps_target"]

IOError(filename) == [type |-> "IOError", what |-> filename]

\* The data loader: a file that is absent is skipped when the call is marked
\* optional and is a fatal error otherwise; a parameter named in
\* optional_params whose column is absent from the header is skipped; the
\* other columns are read into the data portal.
LoadAug(data, tab, args) ==
    IF ~tab.exists
    THEN IF args.optional
         THEN [error |-> NoError, data |-> data]
         ELSE [error |-> IOError(args.filename), data |-> data]
    ELSE
        LET select == IF args.select = << >> THEN tab.columns ELSE args.select
            has_column == Len(select) >= 2 /\ select[2] \in Range(tab.columns)
            keys == {r[1] : r \in tab.rows}
            values == [k \in keys |-> (CHOOSE r \in tab.rows : r[1] = k)[2]]
            with_param == (args.param :> values) @@ data
            with_index == IF args.index = None THEN with_param
                          ELSE (args.index :> keys) @@ with_param
        IN  IF has_column
            THEN [error |-> NoError, data |-> with_index]
            ELSE IF args.param \in args.optional_params
                 THEN [error |-> NoError, data |-> data]
                 ELSE [error |-> [type |-> "ValueError", what |-> args.filename],
                       data |-> data]

load_inputs ==
    /\ phase = "defined"
    /\ LET fuels == LoadAug(switch_data, fuels_tab, fuels_load_args)
           targets == LoadAug(fuels.data, rps_targets_tab, rps_targets_load_args)
       IN  IF fuels.error # NoError
           THEN /\ phase' = "error"
                /\ error' = fuels.error
                /\ switch_data' = fuels.data
           ELSE IF targets.error # NoError
                THEN /\ phase' = "error"
                     /\ error' = targets.error
                     /\ switch_data' = targets.data
                ELSE /\ phase' = "loaded"
                     /\ error' = error
                     /\ switch_data' = targets.data
    /\ UNCHANGED << components, inputs, built, solution, rps_energy_txt >>

\* ---------------------------------------------- the declared components
\* The model object the rules receive as m.
Model ==
    [f_rps_eligible |-> f_rps_eligible,
     RPS_PERIODS |-> RPS_PERIODS,
     rps_target |-> rps_target,
     zone_total_demand_in_period_mwh |-> zone_total_demand_in_period_mwh,
     DispatchGen |-> DispatchGen,
     GenFuelUseRate |-> GenFuelUseRate]

\* within=Boolean
Boolean(v) == v \in {0, 1}

\* Variant: default=True.
f_rps_eligible_default_true == TRUE

\* default=False
f_rps_eligible_default == FALSE

\* m.f_rps_eligible[f], as the truth value the rules test.
f_rps_eligible_at(m, f) ==
    IF f \in DOMAIN m.f_rps_eligible
    THEN m.f_rps_eligible[f] # 0
    ELSE f_rps_eligible_default

\* Variant: the eligibility test on the fuels dropped.
RPS_ENERGY_SOURCES_initialize_all_fuels(m) ==
    NON_FUEL_ENERGY_SOURCES \cup FUELS

RPS_ENERGY_SOURCES_initialize(m) ==
    NON_FUEL_ENERGY_SOURCES \cup {f \in FUELS : f_rps_eligible_at(m, f)}

\* Variant: no validation rule.
RPS_PERIODS_validate_any(m, p) == TRUE

\* validate=lambda m, p: p in m.PERIODS
RPS_PERIODS_validate(m, p) == p \in PERIODS

\* Variant: within=NonNegativeReals.
PercentFraction_no_upper(x) == RLeq(Zero, x)

\* within=PercentFraction
PercentFraction(x) == RLeq(Zero, x) /\ RLeq(x, FromInt(1))

ValueError(component) == [type |-> "ValueError", what |-> component]

Loaded(data, name, empty) == IF name \in DOMAIN data THEN data[name] ELSE empty

\* The framework builds the components in the order they were declared; the
\* first value that fails its domain or validation rule ends the build.
construct ==
    /\ phase = "loaded"
    /\ LET eligible == Loaded(switch_data, "f_rps_eligible", << >>)
           periods == Loaded(switch_data, "RPS_PERIODS", {})
           targets == Loaded(switch_data, "rps_target", << >>)
           m == [Model EXCEPT !.f_rps_eligible = eligible]
           failure ==
               IF \E f \in DOMAIN eligible : ~Boolean(eligible[f])
               THEN ValueError("f_rps_eligible")
               ELSE IF \E p \in periods : ~RPS_PERIODS_validate(m, p)
               THEN ValueError("RPS_PERIODS")
               ELSE IF \E p \in DOMAIN targets :
                          p \notin periods \/ ~PercentFraction(targets[p])
               THEN ValueError("rps_target")
               ELSE NoError
       IN  IF failure # NoError
           THEN /\ phase' = "error"
                /\ error' = failure
                /\ UNCHANGED built
           ELSE /\ phase' = "built"
                /\ error' = error
                /\ f_rps_eligible' = eligible
                /\ RPS_ENERGY_SOURCES' = RPS_ENERGY_SOURCES_initialize(m)
                /\ RPS_PERIODS' = periods
                /\ rps_target' = targets
                /\ RPS_Enforce_Target' = periods
    /\ UNCHANGED << components, inputs, switch_data, solution, rps_energy_txt >>

\* ------------------------------------------------ expressions, constraint
\* The (g, t) pairs a rule's nested for clauses run over.
GenTpsInPeriod(gens, p) ==
    {gt \in gens \X TIMEPOINTS : gt[2] \in TPS_FOR_GEN_IN_PERIOD(gt[1], p)}

\* Variant: the if clause on f_rps_eligible dropped.
EligibleFuelUse_all_fuels(m, g, t) ==
    RSum([f \in FUELS_FOR_GEN(g) |-> FromInt(m.GenFuelUseRate[<< g, t, f >>])])

\* sum(GenFuelUseRate[g, t, f] for f in FUELS_FOR_GEN[g] if f_rps_eligible[f])
EligibleFuelUse(m, g, t) ==
    RSum([f \in {f \in FUELS_FOR_GEN(g) : f_rps_eligible_at(m, f)} |->
            FromInt(m.GenFuelUseRate[<< g, t, f >>])])

RPSFuelEnergy(m, p) ==
    RSum([gt \in GenTpsInPeriod(FUEL_BASED_GENS, p) |->
            RDiv(RMul(FromInt(tp_weight(gt[2])), EligibleFuelUse(m, gt[1], gt[2])),
                 FromInt(gen_full_load_heat_rate(gt[1])))])

RPSNonFuelEnergy(m, p) ==
    RSum([gt \in GenTpsInPeriod(NON_FUEL_BASED_GENS, p) |->
            FromInt(m.DispatchGen[gt] * tp_weight(gt[2]))])

total_generation_in_period(model, period) ==
    RSum([gt \in GenTpsInPeriod(GENERATION_PROJECTS, period) |->
            FromInt(model.DispatchGen[gt] * tp_weight(gt[2]))])

total_demand_in_period(model, period) ==
    RSum([zone \in LOAD_ZONES |->
            FromInt(model.zone_total_demand_in_period_mwh[<< zone, period >>])])

\* Variant: the target applied to total generation instead of total demand.
RPS_Enforce_Target_rule_generation(m, p) ==
    RGeq(RAdd(RPSFuelEnergy(m, p), RPSNonFuelEnergy(m, p)),
         RMul(m.rps_target[p], total_generation_in_period(m, p)))

RPS_Enforce_Target_rule(m, p) ==
    RGeq(RAdd(RPSFuelEnergy(m, p), RPSNonFuelEnergy(m, p)),
         RMul(m.rps_target[p], total_demand_in_period(m, p)))

\* ------------------------------------------------------------------ solve
\* The model with the decision variables at the values d and u.
Solved(d, u) == [Model EXCEPT !.DispatchGen = d, !.GenFuelUseRate = u]

Feasible(m) == \A p \in RPS_Enforce_Target : RPS_Enforce_Target_rule(m, p)

DispatchValues == [GEN_TPS -> 0 .. MaxDispatch]

FuelUseValues == [GEN_TP_FUELS -> 0 .. MaxFuelUse]

\* The solver returns some assignment that satisfies every constraint built.
solve ==
    /\ phase = "built"
    /\ \E d \in DispatchValues, u \in FuelUseValues :
          /\ Feasible(Solved(d, u))
          /\ DispatchGen' = d
          /\ GenFuelUseRate' = u
    /\ phase' = "solved"
    /\ UNCHANGED << error, components, inputs, switch_data, built, rps_energy_txt >>

\* No assignment satisfies the constraints: there is no solution to report.
infeasible ==
    /\ phase = "built"
    /\ ~\E d \in DispatchValues, u \in FuelUseValues : Feasible(Solved(d, u))
    /\ phase' = "infeasible"
    /\ UNCHANGED << error, components, inputs, switch_data, built, solution,
                    rps_energy_txt >>

\* ------------------------------------------------------------- post_solve
headings ==
    << "PERIOD", "RPSFuelEnergyGWh", "RPSNonFuelEnergyGWh",
       "TotalGenerationInPeriodGWh", "RPSGenFraction",
       "TotalSalesInPeriodGWh", "RPSSalesFraction" >>

\* The value that stands for "this division raised ZeroDivisionError".
Raised == << 0, 0 >>

\* Variant: a division that yields 0 when the denominator is 0.
PyDiv_guarded(a, b) ==
    IF b = Zero THEN Zero ELSE RDiv(a, b)

\* Python's a / b.
PyDiv(a, b) ==
    IF a = Raised \/ b = Raised \/ b = Zero THEN Raised ELSE RDiv(a, b)

get_row(m, p) ==
    LET fuel == RPSFuelEnergy(m, p)
        non_fuel == RPSNonFuelEnergy(m, p)
        generation == total_generation_in_period(m, p)
        demand == total_demand_in_period(m, p)
    IN  << p,
           PyDiv(fuel, FromInt(1000)),
           PyDiv(non_fuel, FromInt(1000)),
           PyDiv(generation, FromInt(1000)),
           PyDiv(RAdd(fuel, non_fuel), generation),
           demand,
           PyDiv(RAdd(fuel, non_fuel), demand) >>

\* Evaluating the row raised.
RowRaises(row) == \E i \in 2 .. Len(row) : row[i] = Raised

ZeroDivisionError == [type |-> "ZeroDivisionError", what |-> "rps_energy.txt"]

\* The table writer: the header, then one row per index in the order it
\* meets them, each row evaluated as it is written (values is the row of
\* each index); an exception from a row ends the write after the rows already
\* written, and is passed on to the caller.
WriteTable(indexes, heads, values, written) ==
    [exists |-> TRUE, headings |-> heads,
     rows |-> [p \in written \cap indexes |-> values[p]]]

post_solve ==
    /\ phase = "solved"
    /\ LET rows == [p \in RPS_PERIODS |-> get_row(Model, p)]
           failing == {p \in RPS_PERIODS : RowRaises(rows[p])}
       IN  IF failing # {}
           THEN /\ \E written \in SUBSET (RPS_PERIODS \ failing) :
                      rps_energy_txt' =
                          WriteTable(RPS_PERIODS, headings, rows, written)
                /\ phase' = "error"
                /\ error' = ZeroDivisionError
           ELSE /\ rps_energy_txt' =
                      WriteTable(RPS_PERIODS, headings, rows, RPS_PERIODS)
                /\ phase' = "reported"
                /\ error' = error
    /\ UNCHANGED << components, inputs, switch_data, built, solution >>

Next ==
    \/ define_components
    \/ load_inputs
    \/ construct
    \/ solve
    \/ infeasible
    \/ post_solve

Spec == Init /\ [][Next]_vars

\* ============================================================== the claims
\* The model was built: the framework accepted every loaded value.
BuiltOrLater ==
    \/ phase \in {"built", "solved", "infeasible", "reported"}
    \/ phase = "error" /\ error = ZeroDivisionError

\* The solver returned values for the decision variables.
HasSolution ==
    \/ phase \in {"solved", "reported"}
    \/ phase = "error" /\ error = ZeroDivisionError

\* load_inputs has returned or raised.
LoadAttempted == phase \notin {"init", "defined"}

\* The build has returned or raised.
BuildAttempted == phase \notin {"init", "defined", "loaded"}

EligibleEnergy(p) == RAdd(RPSFuelEnergy(Model, p), RPSNonFuelEnergy(Model, p))

\* Total demand of a period, summed zone by zone from the demand table.
ZonalDemand(p) ==
    zone_total_demand_in_period_mwh[<< "north", p >>]
        + zone_total_demand_in_period_mwh[<< "south", p >>]

\* fuels.tab gives f an f_rps_eligible value.
FuelsTabHasValue(f) ==
    /\ fuels_tab.exists
    /\ "f_rps_eligible" \in Range(fuels_tab.columns)
    /\ \E r \in fuels_tab.rows : r[1] = f

\* fuels.tab is there and holds only values of the Boolean domain.
FuelsTabValid ==
    /\ fuels_tab.exists
    /\ \A r \in fuels_tab.rows : Len(r) = 2 => r[2] \in {0, 1}

\* ---- C1
\* C1: the constraint RPS_Enforce_Target is declared and built for every
\* period of RPS_PERIODS, and every solution has, for each such period,
\* RPSFuelEnergy + RPSNonFuelEnergy >= rps_target * (sum of the zones' demand).
C1_EnforceTargetOnDemand ==
    /\ phase # "init" => "RPS_Enforce_Target" \in components
    /\ BuiltOrLater => RPS_Enforce_Target = RPS_PERIODS
    /\ HasSolution =>
          \A p \in RPS_PERIODS :
              LET e == EligibleEnergy(p)
                  t == rps_target[p]
              IN  e[1] * t[2] >= t[1] * ZonalDemand(p) * e[2]

\* A solution in which both periods carry a target of 1/2 and period 1 meets
\* it with no slack (eligible energy 2 = 1/2 * demand 4).
C1_Witness ==
    /\ phase = "solved"
    /\ RPS_PERIODS = {1, 2}
    /\ rps_target[1] = Rat(1, 2)
    /\ rps_target[2] = Rat(1, 2)
    /\ ZonalDemand(1) = 4
    /\ EligibleEnergy(1) = FromInt(2)

\* ---- C2
\* C2: RPS_ENERGY_SOURCES is exactly NON_FUEL_ENERGY_SOURCES united with the
\* fuels whose f_rps_eligible is true.
C2_EnergySourcesExact ==
    BuiltOrLater =>
        /\ \A s \in NON_FUEL_ENERGY_SOURCES : s \in RPS_ENERGY_SOURCES
        /\ \A f \in FUELS :
              f \in RPS_ENERGY_SOURCES <=>
                  (f \in DOMAIN f_rps_eligible /\ f_rps_eligible[f] = 1)
        /\ RPS_ENERGY_SOURCES \subseteq NON_FUEL_ENERGY_SOURCES \cup FUELS

\* A built model with one eligible and one ineligible fuel.
C2_Witness ==
    /\ phase = "built"
    /\ f_rps_eligible = [f \in FUELS |-> IF f = "biomass" THEN 1 ELSE 0]
    /\ RPS_ENERGY_SOURCES = {"wind", "biomass"}

\* ---- C3
\* C3: in a built model every fuel that fuels.tab gives no f_rps_eligible value
\* (no row for it, or no such column) has f_rps_eligible false and is not in
\* RPS_ENERGY_SOURCES.
C3_EligibilityDefaultsFalse ==
    BuiltOrLater =>
        \A f \in FUELS :
            ~FuelsTabHasValue(f) =>
                /\ ~f_rps_eligible_at(Model, f)
                /\ f \notin RPS_ENERGY_SOURCES

\* A built model whose fuels.tab marks biomass eligible and has no row for coal.
C3_Witness ==
    /\ phase = "built"
    /\ FuelsTabHasValue("biomass")
    /\ ~FuelsTabHasValue("coal")
    /\ "f_rps_eligible" \in Range(fuels_tab.columns)
    /\ RPS_ENERGY_SOURCES = {"wind", "biomass"}

\* ---- C4
\* C4: an rps_targets.tab row whose PERIOD is not in PERIODS ends the build in
\* a fatal error (the RPS_PERIODS validation error when fuels.tab is valid),
\* and in every built model RPS_PERIODS is a subset of PERIODS.
C4_PeriodsValidated ==
    /\ BuiltOrLater => RPS_PERIODS \subseteq PERIODS
    /\ (BuildAttempted /\ \E r \in rps_targets_tab.rows : r[1] \notin PERIODS) =>
          /\ phase = "error"
          /\ error # NoError
          /\ FuelsTabValid => error = ValueError("RPS_PERIODS")

\* The build rejected a targets file with a row for period 3.
C4_Witness ==
    /\ phase = "error"
    /\ error = ValueError("RPS_PERIODS")
    /\ \E r \in rps_targets_tab.rows : r[1] = 3
    /\ \E r \in rps_targets_tab.rows : r[1] \in PERIODS

\* ---- C5
\* C5: an rps_target value outside [0, 1] ends the build in a fatal error (the
\* rps_target domain error when everything declared before it is valid), and in
\* every built model 0 <= rps_target[p] <= 1 for every p in RPS_PERIODS.
C5_TargetsInUnitInterval ==
    /\ BuiltOrLater =>
          /\ DOMAIN rps_target = RPS_PERIODS
          /\ \A p \in RPS_PERIODS :
                0 <= rps_target[p][1] /\ rps_target[p][1] <= rps_target[p][2]
    /\ (BuildAttempted /\ \E r \in rps_targets_tab.rows :
                              r[2][1] < 0 \/ r[2][1] > r[2][2]) =>
          /\ phase = "error"
          /\ error # NoError
          /\ (FuelsTabValid /\ \A r \in rps_targets_tab.rows : r[1] \in PERIODS)
                => error = ValueError("rps_target")

\* The build rejected a target of 3/2 in a file whose periods are all valid.
C5_Witness ==
    /\ phase = "error"
    /\ error = ValueError("rps_target")
    /\ \E r \in rps_targets_tab.rows : r[2] = Rat(3, 2)
    /\ \A r \in rps_targets_tab.rows : r[1] \in PERIODS

\* ---- C6
\* C6: when rps_targets.tab is absent load_inputs ends in a fatal load error
\* and nothing is built; a fuels.tab without the f_rps_eligible column is
\* loaded without error.
C6_TargetsFileMandatory ==
    /\ (LoadAttempted /\ ~rps_targets_tab.exists) =>
          /\ phase = "error"
          /\ error.type = "IOError"
          /\ fuels_tab.exists => error = IOError("rps_targets.tab")
          /\ RPS_PERIODS = {} /\ RPS_Enforce_Target = {} /\ ~rps_energy_txt.exists
    /\ (LoadAttempted /\ fuels_tab.exists /\ rps_targets_tab.exists
            /\ "f_rps_eligible" \notin Range(fuels_tab.columns)) =>
          /\ error.type # "IOError"
          /\ error.what \notin {"fuels.tab", "f_rps_eligible"}
          /\ "RPS_PERIODS" \in DOMAIN switch_data

\* load_inputs failed on the missing targets file after it had accepted a
\* fuels.tab without the f_rps_eligible column.
C6_Witness ==
    /\ phase = "error"
    /\ error = IOError("rps_targets.tab")
    /\ fuels_tab.exists
    /\ "f_rps_eligible" \notin Range(fuels_tab.columns)

\* ---- C7
\* The row the claim describes for period p: every energy column divided by
\* 1000, the two fractions undivided.
C7_ExpectedRow(p) ==
    << p,
       RDiv(RPSFuelEnergy(Model, p), FromInt(1000)),
       RDiv(RPSNonFuelEnergy(Model, p), FromInt(1000)),
       RDiv(total_generation_in_period(Model, p), FromInt(1000)),
       RDiv(EligibleEnergy(p), total_generation_in_period(Model, p)),
       Rat(ZonalDemand(p), 1000),
       RDiv(EligibleEnergy(p), FromInt(ZonalDemand(p))) >>

\* C7: post_solve writes one row per period of RPS_PERIODS under the fixed
\* header, with fuel energy, non-fuel energy, total generation and total
\* demand each divided by 1000 and the two fractions being eligible energy
\* over total generation and over total demand.
C7_RowsInGWh ==
    phase = "reported" =>
        /\ rps_energy_txt.headings = headings
        /\ DOMAIN rps_energy_txt.rows = RPS_PERIODS
        /\ \A p \in RPS_PERIODS : rps_energy_txt.rows[p] = C7_ExpectedRow(p)

\* ---- C8
\* C8: in every solution the eligible energy of each RPS period is at least
\* rps_target times the total energy generated in the period, so the reported
\* RPSGenFraction is at least rps_target.
C8_EnforceTargetOnGeneration ==
    /\ HasSolution =>
          \A p \in RPS_PERIODS :
              RGeq(EligibleEnergy(p),
                   RMul(rps_target[p], total_generation_in_period(Model, p)))
    /\ phase = "reported" =>
          \A p \in RPS_PERIODS : RGeq(rps_energy_txt.rows[p][5], rps_target[p])

\* ---- C9
\* Energy from eligible fuels in period p, term by term: one term
\* tp_weight * GenFuelUseRate / heat rate per (generator, timepoint, fuel) with
\* the timepoint in p and the fuel marked eligible.
C9_FuelEnergy(p) ==
    RSum([gtf \in {x \in GEN_TP_FUELS :
                      /\ tp_period(x[2]) = p
                      /\ x[3] \in DOMAIN f_rps_eligible
                      /\ f_rps_eligible[x[3]] = 1} |->
            Rat(tp_weight(gtf[2]) * GenFuelUseRate[gtf],
                gen_full_load_heat_rate(gtf[1]))])

\* Energy dispatched by non-fuel generators in the timepoints of period p.
C9_NonFuelEnergy(p) ==
    RSum([gt \in {x \in GEN_TPS :
                     x[1] \notin FUEL_BASED_GENS /\ tp_period(x[2]) = p} |->
            FromInt(DispatchGen[gt] * tp_weight(gt[2]))])

\* C9: the eligible energy of an RPS period is the weighted dispatch of the
\* non-fuel generators in the period's timepoints plus, for the fuel-based
\* generators, weight * (fuel use of eligible fuels only) / heat rate; these
\* are the values the report prints (divided by 1000).
C9_EligibleEnergyAccounting ==
    /\ HasSolution =>
          \A p \in RPS_PERIODS :
              /\ RPSNonFuelEnergy(Model, p) = C9_NonFuelEnergy(p)
              /\ RPSFuelEnergy(Model, p) = C9_FuelEnergy(p)
    /\ phase = "reported" =>
          \A p \in RPS_PERIODS :
              /\ rps_energy_txt.rows[p][2] = RDiv(C9_FuelEnergy(p), FromInt(1000))
              /\ rps_energy_txt.rows[p][3] = RDiv(C9_NonFuelEnergy(p), FromInt(1000))

\* A solution in which cofire_gen burns eligible biomass together with
\* ineligible coal in period 2 and wind_gen runs in both periods.
C9_Witness ==
    /\ phase = "solved"
    /\ RPS_PERIODS = {1, 2}
    /\ f_rps_eligible_at(Model, "biomass")
    /\ ~f_rps_eligible_at(Model, "coal")
    /\ GenFuelUseRate[<< "cofire_gen", 3, "coal" >>] = 1
    /\ GenFuelUseRate[<< "cofire_gen", 3, "biomass" >>] = 1
    /\ RPSFuelEnergy(Model, 2) = Rat(3, 2)
    /\ DispatchGen[<< "wind_gen", 1 >>] = 1
    /\ DispatchGen[<< "wind_gen", 3 >>] = 1
    /\ RPSNonFuelEnergy(Model, 1) = FromInt(2)

\* ---- C10
\* A period of RPS_PERIODS with no generation or no demand.
C10_ZeroDenominator(p) ==
    \/ \A gt \in GEN_TPS : tp_period(gt[2]) = p => DispatchGen[gt] = 0
    \/ ZonalDemand(p) = 0

\* C10: once post_solve has run, a period of RPS_PERIODS with zero total
\* generation or zero total demand means the run ended in ZeroDivisionError
\* and the table holds no row for that period; a completed report has no
\* such period.
C10_DivisionUnguarded ==
    /\ phase = "reported" =>
          \A p \in RPS_PERIODS : ~C10_ZeroDenominator(p)
    /\ rps_energy_txt.exists =>
          \A p \in RPS_PERIODS :
              C10_ZeroDenominator(p) =>
                  /\ phase = "error"
                  /\ error = ZeroDivisionError
                  /\ p \notin DOMAIN rps_energy_txt.rows

\* post_solve failed on period 2, which has demand but no generation, after
\* it had written the row of period 1.
C10_Witness ==
    /\ phase = "error"
    /\ error = ZeroDivisionError
    /\ RPS_PERIODS = {1, 2}
    /\ ZonalDemand(2) > 0
    /\ total_generation_in_period(Model, 2) = Zero
    /\ DOMAIN rps_energy_txt.rows = {1}
====
